---------------------------- MODULE Spec2Model ----------------------------
(***************************************************************************)
(* JARVIS voice-assistant shell: the keyword intent classifier             *)
(* (core/nlp_engine.py), the command dispatcher and the conversation loop  *)
(* (core/jarvis.py), the listen call of core/voice_engine.py and the       *)
(* interrupt handler of main.py.                                           *)
(*                                                                         *)
(* A Python str is a sequence of one-character strings, so that            *)
(* lower(), strip() and the substring test "kw in text" are computed       *)
(* character by character.  Texts that are only produced, never            *)
(* inspected (the responses), are TLA+ strings.                            *)
(***************************************************************************)
EXTENDS Integers, Sequences, FiniteSets, TLC

VARIABLES
    audio_backend,  \* VoiceEngine.audio_backend: "none" (None), "pyaudio", "sounddevice"
    running,        \* JARVIS.running
    pc,             \* position of the main thread
    user_input,     \* main_loop's local user_input (Nothing before the first read)
    analysis,       \* the dict NLPEngine.analyze returned last
    system_info,    \* the snapshot handle_system_info read last
    response,       \* main_loop's local response
    spoken,         \* the texts passed to VoiceEngine.speak, in order
    log_file,       \* conversations.json
    errors,         \* number of logger.error calls
    calls,          \* the save_interaction calls made, in order, with their outcome
    dispatched,     \* the texts passed to process_command, in order
    reads,          \* number of input acquisitions (input() or listen()) begun
    acq             \* what the last acquisition met

vars == <<audio_backend, running, pc, user_input, analysis, system_info, response,
          spoken, log_file, errors, calls, dispatched, reads, acq>>

-----------------------------------------------------------------------------
(* Bounds of the model *)

\* texts of the classifier runs are concatenations of at most MaxFrags fragments
MaxFrags == 2
\* the conversation loop acquires input at most MaxCycles times
MaxCycles == 2

-----------------------------------------------------------------------------
(* Text literals *)

k_hello == <<"h","e","l","l","o">>
k_hi == <<"h","i">>
k_hey_jarvis == <<"h","e","y"," ","j","a","r","v","i","s">>
k_good_morning == <<"g","o","o","d"," ","m","o","r","n","i","n","g">>
k_good_evening == <<"g","o","o","d"," ","e","v","e","n","i","n","g">>
k_what_is_my == <<"w","h","a","t"," ","i","s"," ","m","y">>
k_tell_me == <<"t","e","l","l"," ","m","e">>
k_show_me == <<"s","h","o","w"," ","m","e">>
k_get == <<"g","e","t">>
k_system == <<"s","y","s","t","e","m">>
k_open == <<"o","p","e","n">>
k_read == <<"r","e","a","d">>
k_write == <<"w","r","i","t","e">>
k_delete == <<"d","e","l","e","t","e">>
k_file == <<"f","i","l","e">>
k_shutdown == <<"s","h","u","t","d","o","w","n">>
k_restart == <<"r","e","s","t","a","r","t">>
k_sleep == <<"s","l","e","e","p">>
k_lock == <<"l","o","c","k">>
k_how == <<"h","o","w">>
k_what == <<"w","h","a","t">>
k_why == <<"w","h","y">>
k_when == <<"w","h","e","n">>
k_where == <<"w","h","e","r","e">>
k_cpu == <<"c","p","u">>
k_processor == <<"p","r","o","c","e","s","s","o","r">>
k_memory == <<"m","e","m","o","r","y">>
k_ram == <<"r","a","m">>
k_disk == <<"d","i","s","k">>
k_exit == <<"e","x","i","t">>
k_quit == <<"q","u","i","t">>
k_power_down == <<"p","o","w","e","r"," ","d","o","w","n">>

\* input texts of the runs
t_status_query == <<"w","h","a","t"," ","i","s"," ","m","y"," ","s","y","s","t","e","m"," ","s","t","a","t","u","s">>
t_cpu_query == <<"t","e","l","l"," ","m","e"," ","a","b","o","u","t"," ","c","p","u">>
t_Exit == <<" ","E","x","i","t"," ">>
t_Restart == <<"R","e","s","t","a","r","t">>
t_SHUTDOWN == <<"S","H","U","T","D","O","W","N">>
t_CPU == <<"C","P","U">>
t_xyz == <<"x","y","z">>
t_space == <<" ">>
t_tab == <<"\t">>

UpperCase == <<"A","B","C","D","E","F","G","H","I","J","K","L","M","N","O","P","Q","R","S","T","U","V","W","X","Y","Z">>
LowerCase == <<"a","b","c","d","e","f","g","h","i","j","k","l","m","n","o","p","q","r","s","t","u","v","w","x","y","z">>
Whitespace == {" ", "\t", "\n", "\r"}

\* Python's None where a str is expected: no str, since a str holds single characters
Nothing == <<"None">>

-----------------------------------------------------------------------------
(* str operations *)

Last(s) == s[Len(s)]

\* str.lower(), one character
lowerChar(c) ==
    IF \E i \in 1..Len(UpperCase) : UpperCase[i] = c
    THEN LowerCase[CHOOSE i \in 1..Len(UpperCase) : UpperCase[i] = c]
    ELSE c

\* str.lower()
lower(text) == [i \in 1..Len(text) |-> lowerChar(text[i])]

\* str.strip(): leading and trailing whitespace removed
strip(text) ==
    LET keep == {i \in 1..Len(text) : text[i] \notin Whitespace}
    IN  IF keep = {} THEN <<>>
        ELSE SubSeq(text,
                    CHOOSE i \in keep : \A j \in keep : i <= j,
                    CHOOSE i \in keep : \A j \in keep : j <= i)

\* "keyword in text": keyword occurs as a contiguous substring of text
Contains(keyword, text) ==
    \E i \in 1..(Len(text) - Len(keyword) + 1) :
        SubSeq(text, i, i + Len(keyword) - 1) = keyword

\* the test left out
TruthyNoTest(x) == TRUE

\* truth value of an Optional[str]: None and "" are false
Truthy(x) == x # Nothing /\ x # <<>>

-----------------------------------------------------------------------------
(* core/nlp_engine.py *)

\* CommandType member names
CommandType == {"GREETING", "SYSTEM_INFO", "FILE_OPERATION", "CONTROL", "QUERY", "UNKNOWN"}

\* NLPEngine.commands, a dict, iterated in insertion order
commands == <<
    [key |-> "greeting",
     keywords |-> <<k_hello, k_hi, k_hey_jarvis, k_good_morning, k_good_evening>>],
    [key |-> "system_info",
     keywords |-> <<k_what_is_my, k_tell_me, k_show_me, k_get, k_system>>],
    [key |-> "file_operation",
     keywords |-> <<k_open, k_read, k_write, k_delete, k_file>>],
    [key |-> "control",
     keywords |-> <<k_shutdown, k_restart, k_sleep, k_lock>>],
    [key |-> "query",
     keywords |-> <<k_how, k_what, k_why, k_when, k_where>>] >>

\* intent_type.upper() on the keys of commands
upper(key) ==
    CASE key = "greeting"       -> "GREETING"
      [] key = "system_info"    -> "SYSTEM_INFO"
      [] key = "file_operation" -> "FILE_OPERATION"
      [] key = "control"        -> "CONTROL"
      [] key = "query"          -> "QUERY"

\* CommandType[intent_type.upper()] with its KeyError fallback
EnumLookup(intent_type) ==
    IF upper(intent_type) \in CommandType
    THEN upper(intent_type)
    ELSE IF intent_type \in {"file", "file_operation"}
         THEN "FILE_OPERATION"
         ELSE "UNKNOWN"

\* any(keyword in text for keyword in keywords)
AnyKeyword(keywords, text) ==
    \E j \in 1..Len(keywords) : Contains(keywords[j], text)

\* the for loop of _detect_intent from the i-th item of commands on
RECURSIVE DetectFrom(_, _)
DetectFrom(i, text) ==
    IF i > Len(commands) THEN "UNKNOWN"
    ELSE IF AnyKeyword(commands[i].keywords, text)
         THEN EnumLookup(commands[i].key)
         ELSE DetectFrom(i + 1, text)

\* the loop run from the last item back to the first
RECURSIVE DetectBackFrom(_, _)
DetectBackFrom(i, text) ==
    IF i < 1 THEN "UNKNOWN"
    ELSE IF AnyKeyword(commands[i].keywords, text)
         THEN EnumLookup(commands[i].key)
         ELSE DetectBackFrom(i - 1, text)

detect_intent_last_wins(text) == DetectBackFrom(Len(commands), text)

\* NLPEngine._detect_intent
detect_intent(text) == DetectFrom(1, text)

\* NLPEngine._extract_entities
extract_entities(text) == <<>>

calculate_confidence_flat(text, intent) == 85

\* NLPEngine._calculate_confidence, in hundredths: 0.3 is 30, 0.85 is 85
calculate_confidence(text, intent) ==
    IF intent = "UNKNOWN" THEN 30 ELSE 85

\* NLPEngine.analyze
analyze(raw) ==
    LET text == strip(lower(raw))
        intent == detect_intent(text)
    IN  [text |-> text,
         intent |-> intent,
         entities |-> extract_entities(text),
         confidence |-> calculate_confidence(text, intent)]

\* no analyze call made yet
NoAnalysis == [text |-> <<>>, intent |-> "NONE", entities |-> <<>>, confidence |-> 0]

-----------------------------------------------------------------------------
(* core/jarvis.py: the command handlers *)

\* config.AI_NAME
AI_NAME == "JARVIS"

\* SystemAccess.get_system_info(): the snapshots the probe may return.
\* cpu_percent is a float with one decimal, held in tenths.
Snapshots == {
    [cpu_percent |-> 420, memory |-> [available |-> "8.0 GB"],
     disk |-> [free |-> "120.5 GB"], platform |-> "Linux", cpu_count |-> 4],
    [cpu_percent |-> 75, memory |-> [available |-> "512.0 MB"],
     disk |-> [free |-> "1.0 TB"], platform |-> "Darwin", cpu_count |-> 8] }

\* no get_system_info call made yet
NoSnapshot ==
    [cpu_percent |-> 0, memory |-> [available |-> ""],
     disk |-> [free |-> ""], platform |-> "", cpu_count |-> 0]

\* str() of a float that has one decimal, given in tenths: 420 is "42.0"
FloatStr(tenths) == ToString(tenths \div 10) \o "." \o ToString(tenths % 10)

\* JARVIS.handle_greeting
handle_greeting == "Good to see you. How can I assist you today?"

\* the substring tests run on the normalized text
handle_system_info_normalized(text, info) ==
    LET t == strip(lower(text)) IN
    IF Contains(k_cpu, t) \/ Contains(k_processor, t)
    THEN "Your CPU usage is at " \o FloatStr(info.cpu_percent) \o " percent"
    ELSE IF Contains(k_memory, t) \/ Contains(k_ram, t)
    THEN "Memory available: " \o info.memory.available
    ELSE IF Contains(k_disk, t)
    THEN "Disk space free: " \o info.disk.free
    ELSE "System is running on " \o info.platform \o " with "
             \o ToString(info.cpu_count) \o " processors"

\* JARVIS.handle_system_info
handle_system_info(text, info) ==
    IF Contains(k_cpu, text) \/ Contains(k_processor, text)
    THEN "Your CPU usage is at " \o FloatStr(info.cpu_percent) \o " percent"
    ELSE IF Contains(k_memory, text) \/ Contains(k_ram, text)
    THEN "Memory available: " \o info.memory.available
    ELSE IF Contains(k_disk, text)
    THEN "Disk space free: " \o info.disk.free
    ELSE "System is running on " \o info.platform \o " with "
             \o ToString(info.cpu_count) \o " processors"

\* JARVIS.handle_file_operation
handle_file_operation(text) == "File operation feature coming soon"

\* the substring tests run on the normalized text
handle_control_normalized(text) ==
    IF Contains(k_shutdown, strip(lower(text))) THEN "Shutdown command received"
    ELSE IF Contains(k_restart, strip(lower(text))) THEN "Restart command received"
    ELSE "Control command not recognized"

\* JARVIS.handle_control
handle_control(text) ==
    IF Contains(k_shutdown, text) THEN "Shutdown command received"
    ELSE IF Contains(k_restart, text) THEN "Restart command received"
    ELSE "Control command not recognized"

\* JARVIS.handle_query
handle_query(text) == "I will search for that information for you"

\* JARVIS.process_command, given the intent analyze found
dispatch(intent, text, info) ==
    CASE intent = "GREETING"       -> handle_greeting
      [] intent = "SYSTEM_INFO"    -> handle_system_info(text, info)
      [] intent = "FILE_OPERATION" -> handle_file_operation(text)
      [] intent = "CONTROL"        -> handle_control(text)
      [] intent = "QUERY"          -> handle_query(text)
      [] OTHER -> "I did not understand that. Could you please repeat?"

\* the texts start(), main_loop() and stop() speak
Greeting == "Hello sir. " \o AI_NAME \o " online. Ready to assist."
TextModeNotice == "Voice input not available. Switching to text mode. Type your commands."
Farewell == "Powering down. Goodbye sir."

-----------------------------------------------------------------------------
(* core/voice_engine.py and the log file *)

\* VoiceEngine.listen: the lower-cased transcription, or None when the
\* capture or the transcription raised (timeout, noise, request error)
listen(heard) == IF heard = Nothing THEN Nothing ELSE lower(heard)

\* conversations.json: absent, a JSON array of records, or unparsable
\* (left truncated or partial by a failed write)
AbsentLog == [exists |-> FALSE, valid |-> FALSE, conversations |-> <<>>]
EmptyLog == [exists |-> TRUE, valid |-> TRUE, conversations |-> <<>>]
CorruptLog == [exists |-> TRUE, valid |-> FALSE, conversations |-> <<>>]

\* what the file system lets one save_interaction call meet:
\*   ok          every step succeeds
\*   read_error  open(log_file, 'r') or json.load raises
\*   open_error  open(log_file, 'w') raises, the file is untouched
\*   dump_error  json.dump raises after open(log_file, 'w') truncated the file
IOOutcomes(file) ==
    IF file.exists /\ ~file.valid THEN {"read_error"}
    ELSE IF file.exists THEN {"ok", "read_error", "open_error", "dump_error"}
    ELSE {"ok", "open_error", "dump_error"}

\* the record save_interaction builds
Interaction(now, text, resp) ==
    [timestamp |-> now, user_input |-> text, response |-> resp]

\* the file is not loaded before the append
save_interaction_overwrite(file, now, text, resp, io) ==
    CASE io = "ok" ->
           [file |-> [exists |-> TRUE, valid |-> TRUE,
                      conversations |-> <<Interaction(now, text, resp)>>],
            logged |-> 0]
      [] io = "dump_error" -> [file |-> CorruptLog, logged |-> 1]
      [] OTHER -> [file |-> file, logged |-> 1]

\* the except branch does not call logger.error
save_interaction_silent(file, now, text, resp, io) ==
    CASE io = "ok" ->
           [file |-> [exists |-> TRUE, valid |-> TRUE,
                      conversations |->
                          Append(IF file.exists THEN file.conversations ELSE <<>>,
                                 Interaction(now, text, resp))],
            logged |-> 0]
      [] io = "dump_error" -> [file |-> CorruptLog, logged |-> 0]
      [] OTHER -> [file |-> file, logged |-> 0]

\* JARVIS.save_interaction: the file it leaves and the number of
\* logger.error calls it makes; it never raises an Exception
save_interaction(file, now, text, resp, io) ==
    CASE io = "ok" ->
           [file |-> [exists |-> TRUE, valid |-> TRUE,
                      conversations |->
                          Append(IF file.exists THEN file.conversations ELSE <<>>,
                                 Interaction(now, text, resp))],
            logged |-> 0]
      [] io = "dump_error" -> [file |-> CorruptLog, logged |-> 1]
      [] OTHER -> [file |-> file, logged |-> 1]

-----------------------------------------------------------------------------
(* core/jarvis.py: the conversation loop *)

\* the lines typed and the utterances transcribed in the runs of the loop
Lines == {<<>>, k_exit, t_Exit, k_quit, k_shutdown, k_power_down,
          k_hello, t_cpu_query, k_restart, t_Restart, k_lock}

\* main_loop: "if not self.voice_engine.audio_backend"
TextModeAlways == TRUE

TextMode == audio_backend = "none"

ExitPhrases == {k_exit, k_quit, k_shutdown, k_power_down}

\* the line compared as typed
IsExitPhraseRaw(line) == line \in ExitPhrases

\* main_loop: user_input.strip().lower() in ("exit", "quit", "shutdown", "power down")
IsExitPhrase(line) == lower(strip(line)) \in ExitPhrases

\* the flag is left set
stop_keeps_running ==
    /\ running' = running
    /\ spoken' = Append(spoken, Farewell)

\* JARVIS.stop
stop ==
    /\ running' = FALSE
    /\ spoken' = Append(spoken, Farewell)

Init ==
    /\ audio_backend \in {"none", "pyaudio", "sounddevice"}
    /\ running = FALSE
    /\ pc = "created"
    /\ user_input = Nothing
    /\ analysis = NoAnalysis
    /\ system_info = NoSnapshot
    /\ response = ""
    /\ spoken = <<>>
    /\ log_file \in {AbsentLog, EmptyLog}
    /\ errors = 0
    /\ calls = <<>>
    /\ dispatched = <<>>
    /\ reads = 0
    /\ acq = "none"

\* JARVIS.start up to the first loop test of main_loop
Start ==
    /\ pc = "created"
    /\ running' = TRUE
    /\ spoken' = IF TextMode THEN <<Greeting, TextModeNotice>> ELSE <<Greeting>>
    /\ pc' = "input"
    /\ UNCHANGED <<audio_backend, user_input, analysis, system_info, response,
                   log_file, errors, calls, dispatched, reads, acq>>

\* Text Mode: input() returns a line
TextInput ==
    /\ pc = "input" /\ TextMode /\ running /\ reads < MaxCycles
    /\ \E line \in Lines :
        /\ user_input' = line
        /\ IF ~Truthy(line)
           THEN pc' = "input" /\ UNCHANGED <<running, spoken>>
           ELSE IF IsExitPhrase(line)
                THEN stop /\ pc' = "stopped"
                ELSE pc' = "process" /\ UNCHANGED <<running, spoken>>
    /\ reads' = reads + 1
    /\ acq' = "line"
    /\ UNCHANGED <<audio_backend, analysis, system_info, response,
                   log_file, errors, calls, dispatched>>

\* Text Mode: input() raises EOFError or KeyboardInterrupt
TextInputEnd ==
    /\ pc = "input" /\ TextMode /\ running
    /\ \E e \in {"eof", "interrupt"} : acq' = e
    /\ stop
    /\ pc' = "stopped"
    /\ reads' = reads + 1
    /\ UNCHANGED <<audio_backend, user_input, analysis, system_info, response,
                   log_file, errors, calls, dispatched>>

\* Voice Mode: listen(timeout=30) returns
VoiceListen ==
    /\ pc = "input" /\ ~TextMode /\ running /\ reads < MaxCycles
    /\ \E heard \in Lines \cup {Nothing} :
        /\ user_input' = listen(heard)
        /\ acq' = IF heard = Nothing THEN "silence" ELSE "utterance"
        /\ pc' = IF Truthy(listen(heard)) THEN "process" ELSE "input"
    /\ reads' = reads + 1
    /\ UNCHANGED <<audio_backend, running, analysis, system_info, response,
                   spoken, log_file, errors, calls, dispatched>>

\* Voice Mode: KeyboardInterrupt during listen passes its "except Exception",
\* leaves main_loop and start, and main() of main.py calls stop
VoiceInterrupt ==
    /\ pc = "input" /\ ~TextMode /\ running
    /\ acq' = "interrupt"
    /\ stop
    /\ pc' = "stopped"
    /\ reads' = reads + 1
    /\ UNCHANGED <<audio_backend, user_input, analysis, system_info, response,
                   log_file, errors, calls, dispatched>>

\* response = self.process_command(user_input)
Process ==
    /\ pc = "process"
    /\ \E info \in Snapshots :
        LET a == analyze(user_input) IN
        /\ analysis' = a
        /\ response' = dispatch(a.intent, user_input, info)
        /\ system_info' = IF a.intent = "SYSTEM_INFO" THEN info ELSE system_info
    /\ dispatched' = Append(dispatched, user_input)
    /\ pc' = "speak"
    /\ UNCHANGED <<audio_backend, running, user_input, spoken, log_file,
                   errors, calls, reads, acq>>

\* self.voice_engine.speak(response)
Speak ==
    /\ pc = "speak"
    /\ spoken' = Append(spoken, response)
    /\ pc' = "save"
    /\ UNCHANGED <<audio_backend, running, user_input, analysis, system_info,
                   response, log_file, errors, calls, dispatched, reads, acq>>

\* self.save_interaction(user_input, response); the timestamp is the
\* logical time of the acquisition
Save ==
    /\ pc = "save"
    /\ \E io \in IOOutcomes(log_file) :
        LET res == save_interaction(log_file, reads, user_input, response, io) IN
        /\ log_file' = res.file
        /\ errors' = errors + res.logged
        /\ calls' = Append(calls, [user_input |-> user_input,
                                   response |-> response, outcome |-> io])
    /\ pc' = "input"
    /\ UNCHANGED <<audio_backend, running, user_input, analysis, system_info,
                   response, spoken, dispatched, reads, acq>>

\* KeyboardInterrupt after input acquisition, before process_command, speak
\* or save_interaction begins: nothing in main_loop catches it, main() of
\* main.py calls stop
Interrupt ==
    /\ pc \in {"process", "speak", "save"}
    /\ acq' = "interrupt"
    /\ stop
    /\ pc' = "stopped"
    /\ UNCHANGED <<audio_backend, user_input, analysis, system_info, response,
                   log_file, errors, calls, dispatched, reads>>

\* KeyboardInterrupt inside save_interaction, which its "except Exception"
\* does not catch: during json.dump, after open(log_file, 'w') truncated the
\* file, or after the write, before the call returns
SaveInterrupted ==
    /\ pc = "save"
    /\ "ok" \in IOOutcomes(log_file)
    /\ \E at \in {"dump", "return"} :
        /\ log_file' = IF at = "dump" THEN CorruptLog
                       ELSE save_interaction(log_file, reads, user_input,
                                             response, "ok").file
        /\ calls' = Append(calls, [user_input |-> user_input,
                                   response |-> response,
                                   outcome |-> IF at = "dump" THEN "interrupted"
                                               ELSE "ok"])
    /\ acq' = "interrupt"
    /\ stop
    /\ pc' = "stopped"
    /\ UNCHANGED <<audio_backend, user_input, analysis, system_info, response,
                   errors, dispatched, reads>>

Next ==
    \/ Start
    \/ TextInput
    \/ TextInputEnd
    \/ VoiceListen
    \/ VoiceInterrupt
    \/ Process
    \/ Speak
    \/ Save
    \/ Interrupt
    \/ SaveInterrupted

Spec == Init /\ [][Next]_vars

-----------------------------------------------------------------------------
(* process_command applied to any text *)

Fragments == {k_hello, k_hi, k_what_is_my, k_system, t_status_query, t_cpu_query,
              k_file, k_shutdown, t_SHUTDOWN, k_restart, k_lock, k_what,
              k_cpu, t_CPU, k_ram, k_memory, k_disk, k_processor,
              k_exit, t_xyz, t_space, t_tab}

RECURSIVE Flatten(_)
Flatten(parts) ==
    IF parts = <<>> THEN <<>> ELSE Head(parts) \o Flatten(Tail(parts))

Texts ==
    { Flatten(parts) : parts \in UNION { [1..n -> Fragments] : n \in 0..MaxFrags } }

InitNLP ==
    /\ audio_backend = "none"
    /\ running = TRUE
    /\ pc = "process"
    /\ user_input \in Texts
    /\ analysis = NoAnalysis
    /\ system_info = NoSnapshot
    /\ response = ""
    /\ spoken = <<Greeting, TextModeNotice>>
    /\ log_file = AbsentLog
    /\ errors = 0
    /\ calls = <<>>
    /\ dispatched = <<>>
    /\ reads = 1
    /\ acq = "line"

NextNLP == Process

SpecNLP == InitNLP /\ [][NextNLP]_vars

-----------------------------------------------------------------------------
(* The properties *)

\* kw occurs in t: at some offset i, the next Len(kw) characters of t are kw
Occurs(kw, t) ==
    \E i \in 0..(Len(t) - Len(kw)) :
        \A j \in 1..Len(kw) : t[i + j] = kw[j]

\* the categories in their declared order, with their keywords
CategoryOrder == <<"GREETING", "SYSTEM_INFO", "FILE_OPERATION", "CONTROL", "QUERY">>

CategoryKeywords(c) ==
    CASE c = "GREETING" -> {k_hello, k_hi, k_hey_jarvis, k_good_morning, k_good_evening}
      [] c = "SYSTEM_INFO" -> {k_what_is_my, k_tell_me, k_show_me, k_get, k_system}
      [] c = "FILE_OPERATION" -> {k_open, k_read, k_write, k_delete, k_file}
      [] c = "CONTROL" -> {k_shutdown, k_restart, k_sleep, k_lock}
      [] c = "QUERY" -> {k_how, k_what, k_why, k_when, k_where}

Matches(c, t) == \E kw \in CategoryKeywords(c) : Occurs(kw, t)

Normalized(text) == strip(lower(text))

\* process_command has returned for user_input
Analyzed == pc = "speak" /\ dispatched # <<>> /\ Last(dispatched) = user_input

\* C1: analyze returns the first category, in the order Greeting, SystemInfo,
\* FileOperation, Control, Query, that has a keyword occurring in the
\* lower-cased, trimmed text, with confidence 0.85; a text with keywords of
\* exactly one category gets that category; "what is my system status" is
\* SystemInfo, not Query.
C1_FirstMatchingCategory ==
    Analyzed =>
        LET t == Normalized(user_input)
            matching == {n \in 1..Len(CategoryOrder) : Matches(CategoryOrder[n], t)}
        IN
        /\ analysis.text = t
        /\ \A n \in matching :
              (\A m \in matching : n <= m)
              => (analysis.intent = CategoryOrder[n] /\ analysis.confidence = 85)
        /\ \A n \in matching :
              matching = {n} => analysis.intent = CategoryOrder[n]
        /\ (user_input = t_status_query => analysis.intent = "SYSTEM_INFO")

C1_Witness ==
    /\ Analyzed
    /\ user_input = t_status_query
    /\ Matches("QUERY", Normalized(user_input))
    /\ analysis.intent = "SYSTEM_INFO"
    /\ analysis.confidence = 85

\* C2: a text (the empty and the whitespace-only ones included) whose
\* lower-cased, trimmed form holds no keyword of any category is Unknown with
\* confidence 0.3, and confidence is 0.3 exactly when the intent is Unknown.
C2_NoKeywordIsUnknown ==
    Analyzed =>
        /\ (\A n \in 1..Len(CategoryOrder) :
                ~Matches(CategoryOrder[n], Normalized(user_input)))
           => (analysis.intent = "UNKNOWN" /\ analysis.confidence = 30)
        /\ (analysis.confidence = 30 <=> analysis.intent = "UNKNOWN")
        /\ analysis.confidence \in {30, 85}
        /\ (Normalized(user_input) = <<>> => analysis.intent = "UNKNOWN")

C2_Witness ==
    /\ Analyzed
    /\ user_input = <<" ", "\t">>
    /\ analysis.text = <<>>
    /\ analysis.intent = "UNKNOWN"
    /\ analysis.confidence = 30

\* the responses to a SystemInfo request, for the snapshots of the runs
CpuResponse(info) ==
    IF info.cpu_percent = 420 THEN "Your CPU usage is at 42.0 percent"
    ELSE "Your CPU usage is at 7.5 percent"

MemoryResponse(info) ==
    IF info.platform = "Linux" THEN "Memory available: 8.0 GB"
    ELSE "Memory available: 512.0 MB"

DiskResponse(info) ==
    IF info.platform = "Linux" THEN "Disk space free: 120.5 GB"
    ELSE "Disk space free: 1.0 TB"

PlatformResponse(info) ==
    IF info.platform = "Linux" THEN "System is running on Linux with 4 processors"
    ELSE "System is running on Darwin with 8 processors"

\* C7: for an input classified SystemInfo the response is chosen by substring
\* tests on the original text: "cpu" or "processor", else "memory" or "ram",
\* else "disk", else platform and processor count; "tell me about cpu" with
\* cpuPercent 42.0 yields "Your CPU usage is at 42.0 percent".
C7_SystemInfoPriority ==
    (Analyzed /\ analysis.intent = "SYSTEM_INFO") =>
        /\ system_info \in Snapshots
        /\ response =
             IF Occurs(k_cpu, user_input) \/ Occurs(k_processor, user_input)
             THEN CpuResponse(system_info)
             ELSE IF Occurs(k_memory, user_input) \/ Occurs(k_ram, user_input)
             THEN MemoryResponse(system_info)
             ELSE IF Occurs(k_disk, user_input)
             THEN DiskResponse(system_info)
             ELSE PlatformResponse(system_info)
        /\ (user_input = t_cpu_query /\ system_info.cpu_percent = 420)
           => response = "Your CPU usage is at 42.0 percent"

C7_Witness ==
    /\ Analyzed
    /\ user_input = t_cpu_query
    /\ analysis.intent = "SYSTEM_INFO"
    /\ system_info.cpu_percent = 420
    /\ response = "Your CPU usage is at 42.0 percent"

-----------------------------------------------------------------------------
(* The properties of the conversation loop *)

VoiceMode == audio_backend \in {"pyaudio", "sounddevice"}

ExitWords == {k_exit, k_quit, k_shutdown, k_power_down}

\* once the loop has stopped nothing is read, dispatched or logged
StoppedIsFinal ==
    pc = "stopped" =>
        /\ pc' = "stopped"
        /\ running' = FALSE
        /\ UNCHANGED <<reads, log_file, calls, dispatched, spoken>>

\* this step is input() returning a line that is an exit phrase
ExitLineEntered ==
    /\ audio_backend = "none"
    /\ pc = "input"
    /\ reads' = reads + 1
    /\ acq' = "line"
    /\ lower(strip(user_input')) \in ExitWords

\* C3: in Text Mode a line that, trimmed and compared case-insensitively, is
\* "exit", "quit", "shutdown" or "power down" stops the loop: the farewell is
\* spoken, running becomes false, the line is not classified or dispatched,
\* and afterwards no input is read and nothing is appended to the log.
C3_ExitPhraseStops ==
    /\ [][ExitLineEntered =>
             /\ pc' = "stopped"
             /\ running' = FALSE
             /\ spoken' = Append(spoken, Farewell)
             /\ UNCHANGED <<dispatched, analysis, response, log_file, calls>>]_vars
    /\ [][StoppedIsFinal]_vars

C3_Witness ==
    /\ audio_backend = "none"
    /\ pc = "stopped"
    /\ acq = "line"
    /\ user_input = t_Exit
    /\ running = FALSE
    /\ Last(spoken) = Farewell
    /\ calls # <<>>
    /\ \A i \in 1..Len(dispatched) : dispatched[i] # t_Exit

\* this step is listen returning None
ListenReturnedNothing ==
    /\ VoiceMode
    /\ pc = "input"
    /\ reads' = reads + 1
    /\ acq' # "interrupt"
    /\ user_input' = Nothing

\* C4: in Voice Mode a cycle in which listen returns nothing classifies,
\* dispatches, speaks and logs nothing; the loop goes to the next listen call
\* with the log and the running flag unchanged.
C4_SilentCycleDoesNothing ==
    [][ListenReturnedNothing =>
          /\ pc' = "input"
          /\ running' = TRUE
          /\ UNCHANGED <<running, dispatched, analysis, response, spoken,
                         log_file, calls, errors>>]_vars

C4_Witness ==
    /\ VoiceMode
    /\ pc = "input"
    /\ acq = "silence"
    /\ user_input = Nothing
    /\ running
    /\ Len(calls) = 1
    /\ Len(spoken) = 2

\* the save_interaction calls that met no I/O error
OkCalls == SelectSeq(calls, LAMBDA c : c.outcome = "ok")

SameTexts(records, made) ==
    /\ Len(records) = Len(made)
    /\ \A i \in 1..Len(records) :
          /\ records[i].user_input = made[i].user_input
          /\ records[i].response = made[i].response

SaveCalled == Len(calls') = Len(calls) + 1

ControlResponse(text) ==
    IF Occurs(k_shutdown, text) THEN "Shutdown command received"
    ELSE IF Occurs(k_restart, text) THEN "Restart command received"
    ELSE "Control command not recognized"

ControlRule ==
    (pc \in {"speak", "save"} /\ analysis.intent = "CONTROL")
        => response = ControlResponse(user_input)

\* the iteration that acquired user_input is over
CycleOver == pc \in {"input", "stopped"} /\ acq \in {"line", "utterance"}

\* C6 as stated: end to end, in either mode, the input "shutdown" is
\* classified as Control and answered "Shutdown command received"; a
\* Control-classified input is answered by the shutdown/restart rule.
C6_ShutdownAnsweredEndToEnd ==
    /\ (CycleOver /\ user_input = k_shutdown)
         => (analysis.intent = "CONTROL"
               /\ Last(spoken) = "Shutdown command received")
    /\ ControlRule

\* C6 amended: in Voice Mode the input "shutdown" is classified as Control and
\* answered "Shutdown command received" while the assistant keeps running; in
\* Text Mode the line "shutdown" is an exit phrase that stops the loop and is
\* never classified; a Control-classified input is answered by the
\* shutdown/restart rule on the original text.
C6_ShutdownAnsweredInVoiceMode ==
    /\ (VoiceMode /\ CycleOver /\ user_input = k_shutdown)
         => /\ analysis.intent = "CONTROL"
            /\ Last(dispatched) = k_shutdown
            /\ Last(spoken) = "Shutdown command received"
            /\ running
    /\ (audio_backend = "none" /\ CycleOver /\ user_input = k_shutdown)
         => /\ pc = "stopped"
            /\ Last(spoken) = Farewell
    /\ audio_backend = "none"
         => \A i \in 1..Len(dispatched) : dispatched[i] # k_shutdown
    /\ ControlRule

C6_Witness ==
    /\ VoiceMode
    /\ pc = "input"
    /\ acq = "utterance"
    /\ user_input = k_shutdown
    /\ analysis.intent = "CONTROL"
    /\ Last(spoken) = "Shutdown command received"
    /\ running

\* this step is an interrupt or an end of input met while the loop runs
CancelArrives ==
    /\ pc # "stopped"
    /\ running
    /\ acq # acq' \/ reads' = reads + 1
    /\ acq' \in {"eof", "interrupt"}

IOErrors == {"read_error", "open_error", "dump_error"}

FailedCalls == {i \in 1..Len(calls) : calls[i].outcome \in IOErrors}

\* C9: a save_interaction call that meets an I/O error, on reading or on
\* writing, reports it to the logger and returns: the loop stays running, the
\* response of that interaction has been spoken, and the loop is back at
\* input acquisition.
C9_SaveFailureIsSurvived ==
    /\ [](errors = Cardinality(FailedCalls))
    /\ []((calls # <<>> /\ pc = "input") => Last(spoken) = Last(calls).response)
    /\ [][(SaveCalled /\ Last(calls').outcome \in IOErrors) =>
             /\ pc' = "input"
             /\ running' = TRUE
             /\ errors' = errors + 1
             /\ spoken' = spoken
             /\ Last(spoken) = Last(calls').response
             /\ Last(dispatched) = Last(calls').user_input]_vars

C9_Witness ==
    /\ Len(calls) = 2
    /\ calls[1].outcome \in {"read_error", "open_error", "dump_error"}
    /\ errors >= 1
    /\ Len(dispatched) = 2
    /\ pc = "input"
    /\ running

\* C10: in Voice Mode no utterance stops the loop: "exit", "quit", "shutdown"
\* and "power down" are classified, dispatched, spoken and logged like any
\* other input, and running stays true unless an interrupt arrives.
C10_VoiceModeNeverExits ==
    VoiceMode =>
        /\ (pc # "created" /\ acq # "interrupt") => (running /\ pc # "stopped")
        /\ (pc = "input" /\ acq = "utterance" /\ user_input \in ExitWords)
             => /\ Last(dispatched) = user_input
                /\ analysis = analyze(user_input)
                /\ Last(spoken) = response
                /\ Last(calls).user_input = user_input
                /\ Last(calls).response = response
                /\ (Last(calls).outcome = "ok"
                      => Last(log_file.conversations).user_input = user_input)

C10_Witness ==
    /\ VoiceMode
    /\ pc = "input"
    /\ acq = "utterance"
    /\ user_input = k_power_down
    /\ running
    /\ log_file.conversations # <<>>
    /\ Last(log_file.conversations).user_input = k_power_down
    /\ Last(spoken) = "I did not understand that. Could you please repeat?"

=============================================================================
